---------------------------- MODULE Spec2Model ----------------------------
(***************************************************************************)
(* SplitStuff (group-bills): the balance computation and the greedy        *)
(* transfer planner of the group page, with the per-user nets of the       *)
(* groups list and of the home page.                                       *)
(*                                                                         *)
(* Money is fixed point: one unit is 0.001 currency units, so that the     *)
(* planner's threshold 0.01 is the integer Epsilon and the store's         *)
(* numeric(12,2) columns hold multiples of Cent.  Arithmetic is exact;     *)
(* the rounding of IEEE doubles is not represented.                        *)
(***************************************************************************)
EXTENDS Integers, Sequences, FiniteSets, TLC

(* ------------------------------ bounds -------------------------------- *)

\* user ids that occur in the data of the group page
Users == {1, 2, 3}

\* the one group whose page is shown
GroupId == "g1"

\* user references held by the page's expense, split and settlement rows
\* (an expense or a split references one user, a settlement two)
MaxRefs == 4

\* members of the balance maps handed to the planner
MaxMembers == 4

\* largest absolute balance handed to the planner, in cents
MaxBal == 6

\* largest amount by which credits fall short of debits, in cents
MaxDeficit == 2

\* largest weight of the rows of the store: an expense weighs two and one
\* more per split, a settlement one
MaxStoreWeight == 6

(* -------------------------- program constants ------------------------- *)

\* 0.01, the threshold of the planner
Epsilon == 10

\* 0.01, the scale of the numeric(12,2) columns
Cent == 10

\* share and settlement amounts stored in the rows of the page
Amounts == {Cent, 2 * Cent}

Statuses == {"pending", "settled"}

(* ------------------------------ helpers ------------------------------- *)

Range(s) == {s[k] : k \in DOMAIN s}

\* Min with the larger of the two returned
MinTakesLarger(a, b) == IF a >= b THEN a ELSE b

Min(a, b) == IF a <= b THEN a ELSE b

Abs(a) == IF a < 0 THEN -a ELSE a

RemoveAt(s, k) == SubSeq(s, 1, k - 1) \o SubSeq(s, k + 1, Len(s))

RECURSIVE SumOver(_, _)
\* sum of f over the finite set S of its domain
SumOver(f, S) ==
  IF S = {} THEN 0
  ELSE LET k == CHOOSE x \in S : TRUE IN f[k] + SumOver(f, S \ {k})

\* sum of the values of a balance map
SumValues(f) == SumOver(f, DOMAIN f)

(* ------------------------ balances (group page) ----------------------- *)

\* ApplySplit without the hasOwnProperty test on the payer: the payer gets an
\* entry
ApplySplitAnyPayer(byUser, paid_by, split) ==
  IF split.user_id \notin DOMAIN byUser THEN byUser
  ELSE LET debited == [byUser EXCEPT ![split.user_id] = @ - split.share_amount]
       IN IF paid_by \in DOMAIN debited
          THEN [debited EXCEPT ![paid_by] = @ + split.share_amount]
          ELSE (paid_by :> split.share_amount) @@ debited

\* ApplySplit that credits the payer only for the splits of other users
ApplySplitOthersOnly(byUser, paid_by, split) ==
  IF split.user_id \notin DOMAIN byUser THEN byUser
  ELSE LET debited == [byUser EXCEPT ![split.user_id] = @ - split.share_amount]
       IN IF paid_by \in DOMAIN debited /\ paid_by # split.user_id
          THEN [debited EXCEPT ![paid_by] = @ + split.share_amount]
          ELSE debited

\* byUser[split.user_id] -= share; byUser[exp.paid_by] += share
ApplySplit(byUser, paid_by, split) ==
  IF split.user_id \notin DOMAIN byUser THEN byUser
  ELSE LET debited == [byUser EXCEPT ![split.user_id] = @ - split.share_amount]
       IN IF paid_by \in DOMAIN debited
          THEN [debited EXCEPT ![paid_by] = @ + split.share_amount]
          ELSE debited

RECURSIVE ApplySplits(_, _, _)
\* splits.forEach
ApplySplits(byUser, paid_by, splits) ==
  IF splits = <<>> THEN byUser
  ELSE ApplySplits(ApplySplit(byUser, paid_by, Head(splits)), paid_by, Tail(splits))

RECURSIVE ApplyExpenses(_, _)
\* expenses.forEach
ApplyExpenses(byUser, exps) ==
  IF exps = <<>> THEN byUser
  ELSE ApplyExpenses(
         ApplySplits(byUser, Head(exps).paid_by, Head(exps).expense_splits),
         Tail(exps))

\* ApplySettlement without the test that payer and receiver have entries
ApplySettlementAnyUser(byUser, s) ==
  IF s.status # "settled" THEN byUser
  ELSE LET credited == (s.payer_id :>
                          (IF s.payer_id \in DOMAIN byUser
                           THEN byUser[s.payer_id] ELSE 0) + s.amount) @@ byUser
       IN (s.receiver_id :>
             (IF s.receiver_id \in DOMAIN credited
              THEN credited[s.receiver_id] ELSE 0) - s.amount) @@ credited

\* ApplySettlement without the test of the status
ApplySettlementAnyStatus(byUser, s) ==
  IF s.payer_id \notin DOMAIN byUser \/ s.receiver_id \notin DOMAIN byUser
  THEN byUser
  ELSE LET credited == [byUser EXCEPT ![s.payer_id] = @ + s.amount]
       IN [credited EXCEPT ![s.receiver_id] = @ - s.amount]

\* ApplySettlement with the payer debited and the receiver credited
ApplySettlementReversed(byUser, s) ==
  IF s.status # "settled" THEN byUser
  ELSE IF s.payer_id \notin DOMAIN byUser \/ s.receiver_id \notin DOMAIN byUser
  THEN byUser
  ELSE LET debited == [byUser EXCEPT ![s.payer_id] = @ - s.amount]
       IN [debited EXCEPT ![s.receiver_id] = @ + s.amount]

\* one settlement of settlements.forEach
ApplySettlement(byUser, s) ==
  IF s.status # "settled" THEN byUser
  ELSE IF s.payer_id \notin DOMAIN byUser \/ s.receiver_id \notin DOMAIN byUser
  THEN byUser
  ELSE LET credited == [byUser EXCEPT ![s.payer_id] = @ + s.amount]
       IN [credited EXCEPT ![s.receiver_id] = @ - s.amount]

RECURSIVE ApplySettlements(_, _)
\* settlements.forEach
ApplySettlements(byUser, setts) ==
  IF setts = <<>> THEN byUser
  ELSE ApplySettlements(ApplySettlement(byUser, Head(setts)), Tail(setts))

\* the balances memo
Balances(mems, exps, setts) ==
  ApplySettlements(ApplyExpenses([u \in Range(mems) |-> 0], exps), setts)

(* ------------------ recommendedTransfers (group page) ----------------- *)

\* Object.entries(balances): the keys in insertion order, which is the order
\* of the members rows
Entries(mems, bals) ==
  [k \in 1..Len(mems) |-> [userId |-> mems[k], value |-> bals[mems[k]]]]

RECURSIVE CreditorsFromZero(_)
\* Creditors with every member taken in who owes nothing
CreditorsFromZero(entries) ==
  IF entries = <<>> THEN <<>>
  ELSE LET e == Head(entries)
       IN (IF e.value >= 0
           THEN <<[userId |-> e.userId, amount |-> e.value]>>
           ELSE <<>>) \o CreditorsFromZero(Tail(entries))

RECURSIVE CreditorsFromEpsilon(_)
\* Creditors with a balance of exactly 0.01 taken in
CreditorsFromEpsilon(entries) ==
  IF entries = <<>> THEN <<>>
  ELSE LET e == Head(entries)
       IN (IF e.value >= Epsilon
           THEN <<[userId |-> e.userId, amount |-> e.value]>>
           ELSE <<>>) \o CreditorsFromEpsilon(Tail(entries))

RECURSIVE Creditors(_)
\* if (value > 0.01) creditors.push({userId, amount: value})
Creditors(entries) ==
  IF entries = <<>> THEN <<>>
  ELSE LET e == Head(entries)
       IN (IF e.value > Epsilon
           THEN <<[userId |-> e.userId, amount |-> e.value]>>
           ELSE <<>>) \o Creditors(Tail(entries))

RECURSIVE Debtors(_)
\* else if (value < -0.01) debtors.push({userId, amount: -value})
Debtors(entries) ==
  IF entries = <<>> THEN <<>>
  ELSE LET e == Head(entries)
       IN (IF e.value < -Epsilon
           THEN <<[userId |-> e.userId, amount |-> -e.value]>>
           ELSE <<>>) \o Debtors(Tail(entries))

RECURSIVE InsertDescBeforeEqual(_, _)
\* InsertDesc with x put in front of the entries of the same amount
InsertDescBeforeEqual(x, sorted) ==
  IF sorted = <<>> THEN <<x>>
  ELSE IF Head(sorted).amount > x.amount
       THEN <<Head(sorted)>> \o InsertDescBeforeEqual(x, Tail(sorted))
       ELSE <<x>> \o sorted

RECURSIVE InsertDesc(_, _)
\* x put behind every entry of the sorted list whose amount is not smaller
InsertDesc(x, sorted) ==
  IF sorted = <<>> THEN <<x>>
  ELSE IF Head(sorted).amount >= x.amount
       THEN <<Head(sorted)>> \o InsertDesc(x, Tail(sorted))
       ELSE <<x>> \o sorted

RECURSIVE SortDesc(_, _)
\* list.sort((a, b) => b.amount - a.amount): stable, descending by amount
SortDesc(list, sorted) ==
  IF list = <<>> THEN sorted
  ELSE SortDesc(Tail(list), InsertDesc(Head(list), sorted))

RECURSIVE TransferLoopByCent(_, _, _, _, _)
\* TransferLoop with every transfer cut to one cent
TransferLoopByCent(debtors, creditors, i, j, transfers) ==
  IF ~(i <= Len(debtors) /\ j <= Len(creditors)) THEN transfers
  ELSE LET d == debtors[i]
           c == creditors[j]
           amount == Min(Cent, Min(d.amount, c.amount))
           dLeft == d.amount - amount
           cLeft == c.amount - amount
       IN TransferLoopByCent(
            [debtors EXCEPT ![i].amount = dLeft],
            [creditors EXCEPT ![j].amount = cLeft],
            IF dLeft < Epsilon THEN i + 1 ELSE i,
            IF cLeft < Epsilon THEN j + 1 ELSE j,
            Append(transfers, [from |-> d.userId, to |-> c.userId, amount |-> amount]))

RECURSIVE TransferLoop(_, _, _, _, _)
\* while (i < debtors.length && j < creditors.length) { ... }
\* (i and j count from 1 here)
TransferLoop(debtors, creditors, i, j, transfers) ==
  IF ~(i <= Len(debtors) /\ j <= Len(creditors)) THEN transfers
  ELSE LET d == debtors[i]
           c == creditors[j]
           amount == Min(d.amount, c.amount)
           dLeft == d.amount - amount
           cLeft == c.amount - amount
       IN TransferLoop(
            [debtors EXCEPT ![i].amount = dLeft],
            [creditors EXCEPT ![j].amount = cLeft],
            IF dLeft < Epsilon THEN i + 1 ELSE i,
            IF cLeft < Epsilon THEN j + 1 ELSE j,
            Append(transfers, [from |-> d.userId, to |-> c.userId, amount |-> amount]))

\* the recommendedTransfers memo
RecommendedTransfers(mems, bals) ==
  TransferLoop(SortDesc(Debtors(Entries(mems, bals)), <<>>),
               SortDesc(Creditors(Entries(mems, bals)), <<>>),
               1, 1, <<>>)

(* --------------- perGroupNet (groups list), balances (home) ----------- *)

\* map[group] with the entry created as 0 when it is missing
Touch(map, group) == IF group \in DOMAIN map THEN map ELSE (group :> 0) @@ map

\* one split of an expense, for the signed-in user
NetSplit(map, user, exp, split) ==
  LET owed == IF split.user_id = user /\ exp.paid_by # user
              THEN [map EXCEPT ![exp.group_id] = @ - split.share_amount]
              ELSE map
  IN IF exp.paid_by = user /\ split.user_id # user
     THEN [owed EXCEPT ![exp.group_id] = @ + split.share_amount]
     ELSE owed

RECURSIVE NetSplits(_, _, _, _)
NetSplits(map, user, exp, splits) ==
  IF splits = <<>> THEN map
  ELSE NetSplits(NetSplit(map, user, exp, Head(splits)), user, exp, Tail(splits))

RECURSIVE NetExpenses(_, _, _)
NetExpenses(map, user, exps) ==
  IF exps = <<>> THEN map
  ELSE NetExpenses(
         NetSplits(Touch(map, Head(exps).group_id), user, Head(exps),
                   Head(exps).expense_splits),
         user, Tail(exps))

\* NetSettlement with the payer debited and the receiver credited
NetSettlementReversed(map, user, s) ==
  IF s.status # "settled" THEN map
  ELSE LET touched == Touch(map, s.group_id)
           paid == IF s.payer_id = user
                   THEN [touched EXCEPT ![s.group_id] = @ - s.amount]
                   ELSE touched
       IN IF s.receiver_id = user
          THEN [paid EXCEPT ![s.group_id] = @ + s.amount]
          ELSE paid

\* one settlement, for the signed-in user
NetSettlement(map, user, s) ==
  IF s.status # "settled" THEN map
  ELSE LET touched == Touch(map, s.group_id)
           paid == IF s.payer_id = user
                   THEN [touched EXCEPT ![s.group_id] = @ + s.amount]
                   ELSE touched
       IN IF s.receiver_id = user
          THEN [paid EXCEPT ![s.group_id] = @ - s.amount]
          ELSE paid

RECURSIVE NetSettlements(_, _, _)
NetSettlements(map, user, setts) ==
  IF setts = <<>> THEN map
  ELSE NetSettlements(NetSettlement(map, user, Head(setts)), user, Tail(setts))

\* the perGroupNet query of the groups list
PerGroupNet(user, exps, setts) ==
  NetSettlements(NetExpenses(<<>>, user, exps), user, setts)

\* one split of an expense, for the totals of the home page
TotalsSplit(t, user, exp, split) ==
  LET owed == IF split.user_id = user /\ exp.paid_by # user
              THEN [t EXCEPT !.totalOwed = @ + split.share_amount]
              ELSE t
  IN IF exp.paid_by = user /\ split.user_id # user
     THEN [owed EXCEPT !.totalOwedToYou = @ + split.share_amount]
     ELSE owed

RECURSIVE TotalsSplits(_, _, _, _)
TotalsSplits(t, user, exp, splits) ==
  IF splits = <<>> THEN t
  ELSE TotalsSplits(TotalsSplit(t, user, exp, Head(splits)), user, exp, Tail(splits))

RECURSIVE TotalsExpenses(_, _, _)
TotalsExpenses(t, user, exps) ==
  IF exps = <<>> THEN t
  ELSE TotalsExpenses(TotalsSplits(t, user, Head(exps), Head(exps).expense_splits),
                      user, Tail(exps))

\* one settlement, for the totals of the home page
TotalsSettlement(t, user, s) ==
  IF s.status # "settled" THEN t
  ELSE LET paid == IF s.payer_id = user
                   THEN [t EXCEPT !.totalOwed = @ - s.amount]
                   ELSE t
       IN IF s.receiver_id = user
          THEN [paid EXCEPT !.totalOwedToYou = @ - s.amount]
          ELSE paid

RECURSIVE TotalsSettlements(_, _, _)
TotalsSettlements(t, user, setts) ==
  IF setts = <<>> THEN t
  ELSE TotalsSettlements(TotalsSettlement(t, user, Head(setts)), user, Tail(setts))

\* the balances query of the home page
HomeTotals(user, exps, setts) ==
  TotalsSettlements(
    TotalsExpenses([totalOwed |-> 0, totalOwedToYou |-> 0], user, exps),
    user, setts)

\* the 0.01 of the filter of the people to pay: amount < -0.01
PayableThreshold == 10

\* perPerson[id] = (perPerson[id] ?? 0) + delta, the entries kept in the order
\* in which their keys were first written
PersonAdd(list, id, delta) ==
  IF \E k \in DOMAIN list : list[k].id = id
  THEN [k \in DOMAIN list |->
          IF list[k].id = id THEN [list[k] EXCEPT !.value = @ + delta] ELSE list[k]]
  ELSE Append(list, [id |-> id, value |-> delta])

\* one split of an expense, for the people the signed-in user owes or is owed by
PersonSplit(list, user, exp, split) ==
  LET owed == IF split.user_id = user /\ exp.paid_by # user
              THEN PersonAdd(list, exp.paid_by, -split.share_amount)
              ELSE list
  IN IF exp.paid_by = user /\ split.user_id # user
     THEN PersonAdd(owed, split.user_id, split.share_amount)
     ELSE owed

RECURSIVE PersonSplits(_, _, _, _)
PersonSplits(list, user, exp, splits) ==
  IF splits = <<>> THEN list
  ELSE PersonSplits(PersonSplit(list, user, exp, Head(splits)), user, exp, Tail(splits))

RECURSIVE PersonExpenses(_, _, _)
PersonExpenses(list, user, exps) ==
  IF exps = <<>> THEN list
  ELSE PersonExpenses(PersonSplits(list, user, Head(exps), Head(exps).expense_splits),
                      user, Tail(exps))

\* one settlement, for the people the signed-in user owes or is owed by
PersonSettlement(list, user, s) ==
  IF s.status # "settled" THEN list
  ELSE LET paid == IF s.payer_id = user
                   THEN PersonAdd(list, s.receiver_id, s.amount)
                   ELSE list
       IN IF s.receiver_id = user
          THEN PersonAdd(paid, s.payer_id, -s.amount)
          ELSE paid

RECURSIVE PersonSettlements(_, _, _)
PersonSettlements(list, user, setts) ==
  IF setts = <<>> THEN list
  ELSE PersonSettlements(PersonSettlement(list, user, Head(setts)), user, Tail(setts))

\* the perPerson record of the payables query, as the list of its entries
PerPerson(user, exps, setts) ==
  PersonSettlements(PersonExpenses(<<>>, user, exps), user, setts)

RECURSIVE OweEntriesFromThreshold(_)
\* OweEntries with a net of exactly -0.01 taken in
OweEntriesFromThreshold(list) ==
  IF list = <<>> THEN <<>>
  ELSE (IF Head(list).value <= -PayableThreshold
        THEN <<[counterpartyId |-> Head(list).id, amount |-> Abs(Head(list).value)]>>
        ELSE <<>>) \o OweEntriesFromThreshold(Tail(list))

RECURSIVE OweEntries(_)
\* Object.entries(perPerson).filter(([, amount]) => amount < -0.01), each id
\* then mapped to its entry with amount: Math.abs(perPerson[id])
OweEntries(list) ==
  IF list = <<>> THEN <<>>
  ELSE (IF Head(list).value < -PayableThreshold
        THEN <<[counterpartyId |-> Head(list).id, amount |-> Abs(Head(list).value)]>>
        ELSE <<>>) \o OweEntries(Tail(list))

\* the payables query of the home page
Payables(user, exps, setts) ==
  SortDesc(OweEntries(PerPerson(user, exps, setts)), <<>>)

(* ------------------------------- state -------------------------------- *)

VARIABLES
  members,               \* data of the group-members query: user ids by joined_at
  expenses,              \* data of the expenses query, each row with its splits
  settlements,           \* data of the settlements query
  balances,              \* the balances memo
  recommendedTransfers,  \* the recommendedTransfers memo
  loop,                  \* a run of the recommendedTransfers memo in progress:
                         \* its local debtors, creditors, i, j and transfers
  group,                 \* the rows of the groups table with the id of the page
  toast,                 \* the title of the toast shown last
  actor,                 \* the signed-in user of the handler that managed the
                         \* group or its members last
  tabs,                  \* the browser tabs in which a group is created or joined
  home,                  \* the home page and the groups list of a signed-in
                         \* user: the data of their queries
  tables,                \* the rows of group_members, expenses, expense_splits
                         \* and settlements of two groups, as the requests of
                         \* the users under the row-level policies leave them
  reply,                 \* the last request on expenses, expense_splits or
                         \* settlements and the rows it returned or changed
  auth                   \* the state of AuthProvider, its getSession promise,
                         \* and the page that is open with the context value
                         \* of its last render

\* the state the page and the mutations of a group leave alone
clientVars == <<tabs, home, tables, reply, auth>>

\* the state a step of a tab leaves alone, besides the rows of the group
besidesTabs == <<home, tables, reply, auth>>

\* the state a query of the home page leaves alone
besidesHome ==
  <<members, balances, recommendedTransfers, loop, group, toast, actor, tabs,
    tables, reply, auth>>

\* the state a request under the row-level policies leaves alone
besidesTables ==
  <<members, expenses, settlements, balances, recommendedTransfers, loop, group,
    toast, actor, tabs, home, auth>>

\* the state AuthProvider and the redirect effects of the pages leave alone
besidesAuth ==
  <<members, expenses, settlements, balances, recommendedTransfers, loop, group,
    toast, actor, tabs, home, tables, reply>>

vars ==
  <<members, expenses, settlements, balances, recommendedTransfers, loop, group,
    toast, actor, clientVars>>

\* no user is signed in (user is null)
NoUser == 0

\* no toast has been shown
NoToast == ""

\* the browser tabs in which the app is open
Tabs == {"tab1", "tab2"}

\* no tab has called a handler: no user, no insert pending, no toast, no error
NoTabs ==
  [t \in Tabs |-> [user |-> NoUser, pc |-> "idle", toast |-> NoToast, error |-> ""]]

\* nobody is signed in on the home page: its queries are not enabled
NoHome ==
  [user |-> NoUser, balances |-> [totalOwed |-> 0, totalOwedToYou |-> 0],
   perGroupNet |-> <<>>, payables |-> <<>>]

\* the four tables without a row
NoRows ==
  [group_members |-> {}, expenses |-> {}, expense_splits |-> {}, settlements |-> {}]

\* no request has been made
NoReply == [user |-> NoUser, table |-> "", op |-> "", rows |-> {}]

\* AuthProvider as it is mounted: user null, loading true, getSession pending,
\* no auth event delivered; the home page is open and has rendered with that
\* context value
NoAuth ==
  [user |-> NoUser, loading |-> TRUE, getSession |-> "pending",
   finally |-> FALSE, events |-> 0, page |-> "Index",
   seen |-> [user |-> NoUser, loading |-> TRUE]]

\* no run of the recommendedTransfers memo in progress
NoLoop ==
  [pc |-> "idle", debtors |-> <<>>, creditors |-> <<>>, i |-> 1, j |-> 1,
   transfers |-> <<>>]

\* non-empty sequences over S of length at most n
SeqsUpTo(S, n) == UNION {[1..k -> S] : k \in 1..n}

SplitRows == [user_id : Users, share_amount : Amounts]

SettlementRows ==
  [group_id : {GroupId}, payer_id : Users, receiver_id : Users,
   amount : Amounts, status : Statuses]

RECURSIVE ExpenseRefs(_)
ExpenseRefs(exps) ==
  IF exps = <<>> THEN 0
  ELSE 1 + Len(Head(exps).expense_splits) + ExpenseRefs(Tail(exps))

\* user references held by the rows of the page
Refs(exps, setts) == ExpenseRefs(exps) + 2 * Len(setts)

\* a render of the page: both memos recomputed from the data of the queries
Memos(mems, exps, setts) ==
  /\ members' = mems
  /\ expenses' = exps
  /\ settlements' = setts
  /\ balances' = Balances(mems, exps, setts)
  /\ recommendedTransfers' = RecommendedTransfers(mems, Balances(mems, exps, setts))
  /\ UNCHANGED loop

\* the page renders in a step that leaves the tabs alone
Render(mems, exps, setts) ==
  /\ Memos(mems, exps, setts)
  /\ UNCHANGED clientVars

\* the page before any query has answered
Init ==
  /\ members = <<>>
  /\ expenses = <<>>
  /\ settlements = <<>>
  /\ balances = Balances(<<>>, <<>>, <<>>)
  /\ recommendedTransfers = RecommendedTransfers(<<>>, Balances(<<>>, <<>>, <<>>))
  /\ loop = NoLoop
  /\ group = <<>>
  /\ toast = NoToast
  /\ actor = NoUser
  /\ tabs = NoTabs
  /\ home = NoHome
  /\ tables = NoRows
  /\ reply = NoReply
  /\ auth = NoAuth

\* the members query answers with one more row (a user joined)
MemberJoined ==
  /\ \E u \in Users \ Range(members) :
       Render(Append(members, u), expenses, settlements)
  /\ UNCHANGED <<group, toast, actor>>

\* the members query answers with one row less (the creator removed a member,
\* or a member left)
MemberRemoved ==
  /\ \E k \in DOMAIN members :
       Render(RemoveAt(members, k), expenses, settlements)
  /\ UNCHANGED <<group, toast, actor>>

\* the expenses query answers with one more expense and its splits (addExpense
\* stores at least one split with an expense)
ExpenseLoaded ==
  /\ Refs(expenses, settlements) + 2 <= MaxRefs
  /\ \E payer \in Users,
        splits \in SeqsUpTo(SplitRows, MaxRefs - 1 - Refs(expenses, settlements)) :
       Render(members,
              <<[group_id |-> GroupId, paid_by |-> payer, expense_splits |-> splits]>>
                \o expenses,
              settlements)
  /\ UNCHANGED <<group, toast, actor>>

\* the settlements query answers with one more settlement
SettlementLoaded ==
  /\ Refs(expenses, settlements) + 2 <= MaxRefs
  /\ \E s \in SettlementRows : Render(members, expenses, <<s>> \o settlements)
  /\ UNCHANGED <<group, toast, actor>>

Next == MemberJoined \/ MemberRemoved \/ ExpenseLoaded \/ SettlementLoaded

Spec == Init /\ [][Next]_vars

(* ------------------- the planner on given balance maps ---------------- *)

RECURSIVE SumSeq(_)
SumSeq(s) == IF s = <<>> THEN 0 ELSE Head(s) + SumSeq(Tail(s))

InitPlanner == Init

\* the balances memo changes to the map of the row and the planner runs on it
PlanFor(row) ==
  /\ members' = [k \in 1..Len(row) |-> k]
  /\ balances' = [u \in 1..Len(row) |-> row[u]]
  /\ recommendedTransfers' =
       RecommendedTransfers([k \in 1..Len(row) |-> k],
                            [u \in 1..Len(row) |-> row[u]])
  /\ UNCHANGED <<expenses, settlements, loop, group, toast, actor, clientVars>>

\* a balance map of up to MaxMembers members, in cents: p for the members but
\* the last, and a last balance by which the credits fall short of the debits
\* by d (a map the balances memo returns never has a positive sum)
BalancesChanged ==
  /\ members = <<>>
  /\ \E n \in 1..MaxMembers :
       \E p \in [1..(n - 1) -> -MaxBal..MaxBal], d \in 0..MaxDeficit :
         /\ Abs(SumSeq(p) + d) <= MaxBal
         /\ PlanFor([k \in 1..n |->
                       IF k < n THEN p[k] * Cent ELSE -(SumSeq(p) + d) * Cent])

\* a zero-sum balance map of MaxMembers + 1 members, in steps of two cents
EvenBalancesChanged ==
  /\ members = <<>>
  /\ \E p \in [1..MaxMembers -> -(MaxBal \div 2)..(MaxBal \div 2)] :
       /\ Abs(SumSeq(p)) <= MaxBal \div 2
       /\ PlanFor([k \in 1..(MaxMembers + 1) |->
                     IF k <= MaxMembers THEN p[k] * 2 * Cent
                     ELSE -SumSeq(p) * 2 * Cent])

\* balances at and next to the tolerance of the planner: 0.009, 0.01, 0.011,
\* and 0.02 (the sums of stored shares are whole cents; what lies between the
\* cents stands for the rounding noise of the additions)
NearEpsilon == {0, Epsilon - 1, Epsilon, Epsilon + 1, 2 * Cent}

FineValues == NearEpsilon \cup {-v : v \in NearEpsilon}

\* the balance maps of up to MaxMembers members over FineValues whose sum is
\* not positive
FineRows ==
  UNION {{p \in [1..n -> FineValues] : SumSeq(p) <= 0} : n \in 1..MaxMembers}

\* a balance map with values at and next to the tolerance
FineBalancesChanged ==
  /\ members = <<>>
  /\ \E row \in FineRows : PlanFor(row)

NextPlanner == BalancesChanged \/ EvenBalancesChanged \/ FineBalancesChanged

SpecPlanner == InitPlanner /\ [][NextPlanner]_vars

(* ------------- the loop of the planner, iteration by iteration -------- *)

InitLoop == Init

\* the loop condition: i < debtors.length && j < creditors.length
LoopCondition(l) == l.i <= Len(l.debtors) /\ l.j <= Len(l.creditors)

\* LoopBody with the pointers moved only when an amount has become negative
LoopBodyBelowZero(l) ==
  LET d == l.debtors[l.i]
      c == l.creditors[l.j]
      amount == Min(d.amount, c.amount)
      dLeft == d.amount - amount
      cLeft == c.amount - amount
  IN [pc |-> "loop",
      debtors |-> [l.debtors EXCEPT ![l.i].amount = dLeft],
      creditors |-> [l.creditors EXCEPT ![l.j].amount = cLeft],
      i |-> IF dLeft < 0 THEN l.i + 1 ELSE l.i,
      j |-> IF cLeft < 0 THEN l.j + 1 ELSE l.j,
      transfers |-> Append(l.transfers,
                           [from |-> d.userId, to |-> c.userId, amount |-> amount])]

\* one iteration of the loop: the transfer is pushed, d.amount and c.amount
\* (fields of the objects pushed onto the local lists) are reduced, and the
\* pointers are moved
LoopBody(l) ==
  LET d == l.debtors[l.i]
      c == l.creditors[l.j]
      amount == Min(d.amount, c.amount)
      dLeft == d.amount - amount
      cLeft == c.amount - amount
  IN [pc |-> "loop",
      debtors |-> [l.debtors EXCEPT ![l.i].amount = dLeft],
      creditors |-> [l.creditors EXCEPT ![l.j].amount = cLeft],
      i |-> IF dLeft < Epsilon THEN l.i + 1 ELSE l.i,
      j |-> IF cLeft < Epsilon THEN l.j + 1 ELSE l.j,
      transfers |-> Append(l.transfers,
                           [from |-> d.userId, to |-> c.userId, amount |-> amount])]

\* balances of whole cents up to 0.03, and 0.011 next to the tolerance
LoopValues ==
  {0, Cent, Epsilon + 1, 2 * Cent, 3 * Cent}
    \cup {-Cent, -(Epsilon + 1), -2 * Cent, -3 * Cent}

\* the balance maps of up to MaxMembers members over LoopValues whose sum is
\* not positive
LoopRows ==
  UNION {{p \in [1..n -> LoopValues] : SumSeq(p) <= 0} : n \in 1..MaxMembers}

\* the balances memo has changed to the map of the row: the planner fills and
\* sorts its two lists and sets i and j
PlanningStarted ==
  /\ loop.pc = "idle"
  /\ \E row \in LoopRows :
       /\ members' = [k \in 1..Len(row) |-> k]
       /\ balances' = [u \in 1..Len(row) |-> row[u]]
       /\ loop' = [pc |-> "loop",
                   debtors |-> SortDesc(Debtors(Entries(members', balances')), <<>>),
                   creditors |-> SortDesc(Creditors(Entries(members', balances')), <<>>),
                   i |-> 1, j |-> 1, transfers |-> <<>>]
  /\ UNCHANGED <<expenses, settlements, recommendedTransfers, group, toast,
                 actor, clientVars>>

\* LoopIterated with the amounts written through to the balance map
LoopIteratedInPlace ==
  /\ loop.pc = "loop"
  /\ LoopCondition(loop)
  /\ loop' = LoopBody(loop)
  /\ balances' = [balances EXCEPT
                    ![loop.debtors[loop.i].userId] = -loop'.debtors[loop.i].amount,
                    ![loop.creditors[loop.j].userId] = loop'.creditors[loop.j].amount]
  /\ UNCHANGED <<members, expenses, settlements, recommendedTransfers, group,
                 toast, actor, clientVars>>

\* the loop condition holds and the body runs once
LoopIterated ==
  /\ loop.pc = "loop"
  /\ LoopCondition(loop)
  /\ loop' = LoopBody(loop)
  /\ UNCHANGED <<members, expenses, settlements, balances, recommendedTransfers,
                 group, toast, actor, clientVars>>

\* the loop condition fails: return transfers
LoopReturned ==
  /\ loop.pc = "loop"
  /\ ~LoopCondition(loop)
  /\ loop' = [loop EXCEPT !.pc = "done"]
  /\ recommendedTransfers' = loop.transfers
  /\ UNCHANGED <<members, expenses, settlements, balances, group, toast, actor,
                 clientVars>>

NextLoop == PlanningStarted \/ LoopIterated \/ LoopReturned

\* the memo is synchronous code: once called it runs on to its return
SpecLoop == InitLoop /\ [][NextLoop]_vars /\ WF_vars(LoopIterated \/ LoopReturned)

(* ------------------ the store of one group and its page --------------- *)

\* expense amounts of the form: 0.05 and 300.00
ExpenseAmounts == {5 * Cent, 30000 * Cent}

\* percentages typed into the custom split, in half percents: none, 49.5, 50
HalfPercents == {0, 99, 100}

\* Number((num / den).toFixed(2)) for num in units of 0.001: the multiples of a
\* cent next to num / den; a quotient half-way between two cents goes up or
\* down with the double that stands for it
ToFixed2(num, den) ==
  LET d == den * Cent
      q == num \div d
      r == num % d
  IN IF 2 * r < d THEN {q * Cent}
     ELSE IF 2 * r > d THEN {(q + 1) * Cent}
     ELSE {q * Cent, (q + 1) * Cent}

\* participants.map(p => ({user_id: p.user_id, share_amount: equalShare}))
EqualSplits(participants, equalShare) ==
  [k \in 1..Len(participants) |->
     [user_id |-> participants[k], share_amount |-> equalShare]]

RECURSIVE Percents(_, _)
\* the percents list: the participants with a typed percentage above 0
Percents(participants, customPercents) ==
  IF participants = <<>> THEN <<>>
  ELSE (IF customPercents[Head(participants)] > 0
        THEN <<[user_id |-> Head(participants),
                percent |-> customPercents[Head(participants)]]>>
        ELSE <<>>) \o Percents(Tail(participants), customPercents)

RECURSIVE TotalPercent(_)
\* percents.reduce((sum, p) => sum + p.percent, 0)
TotalPercent(percents) ==
  IF percents = <<>> THEN 0
  ELSE Head(percents).percent + TotalPercent(Tail(percents))

RECURSIVE CustomSplits(_, _)
\* the lists of splits percents.map(...) can give: one split per entry with
\* share_amount = Number((amount * percent / 100).toFixed(2))
CustomSplits(amount, percents) ==
  IF percents = <<>> THEN {<<>>}
  ELSE {<<[user_id |-> Head(percents).user_id, share_amount |-> share]>> \o rest :
          share \in ToFixed2(amount * Head(percents).percent, 200),
          rest \in CustomSplits(amount, Tail(percents))}

\* a value as a numeric(12,2) column stores it: rounded to the cent, a half
\* away from zero (the values are positive here)
Numeric2(a) == ((a + Cent \div 2) \div Cent) * Cent

InitStore == Init

\* the page after a mutation has succeeded and the invalidated queries have
\* answered with the rows of the store
Refetched(mems, exps, setts) ==
  /\ Render(mems, exps, setts)
  /\ UNCHANGED group

\* the invite code generateInviteCode draws for a new group; the random codes
\* are named by their order: inviteMutation draws the next one
FirstInviteCode == 1

\* a handler that manages the group or its members shows its toast to the
\* signed-in user
Toast(user, title) == toast' = title /\ actor' = user

\* handleCreateGroup when both inserts succeed: the group row, then the
\* creator's member row; the page of the new group is opened
HandleCreateGroup ==
  /\ group = <<>>
  /\ \E user \in Users :
       /\ group' = <<[id |-> GroupId, created_by |-> user,
                      invite_code |-> FirstInviteCode]>>
       /\ Render(<<user>>, expenses, settlements)
       /\ Toast(user, "Group created")

\* joinGroup by a user who is not a member, with the code of the group: the
\* user's member row is inserted and the page of the group is opened
JoinGroup ==
  /\ group # <<>>
  /\ \E user \in Users \ Range(members) :
       /\ Refetched(Append(members, user), expenses, settlements)
       /\ Toast(user, "Joined group")

\* the weight of the rows of the store
StoreWeight(exps, setts) == ExpenseRefs(exps) + Len(exps) + Len(setts)

\* the expense row is inserted and after it the rows of its splits
ExpenseStored(paidBy, amount, splits) ==
  /\ StoreWeight(expenses, settlements) + 2 + Len(splits) <= MaxStoreWeight
  /\ Refetched(members,
               <<[group_id |-> GroupId, paid_by |-> paidBy,
                  amount |-> Numeric2(amount), expense_splits |-> splits]>>
                 \o expenses,
               settlements)

\* the splits of the form: equal shares over the participants, or one share
\* per typed percentage if the percentages pass the two tests
FormSplits(participants, amount) ==
  {EqualSplits(participants, equalShare) :
     equalShare \in ToFixed2(amount, Len(participants))}
    \cup UNION {CustomSplits(amount, Percents(participants, customPercents)) :
                  customPercents \in
                    {cp \in [Range(participants) -> HalfPercents] :
                       /\ TotalPercent(Percents(participants, cp)) > 0
                       /\ Abs(TotalPercent(Percents(participants, cp)) - 200) <= 1}}

\* addExpense when both inserts succeed: the payer is one of the members the
\* form lists, the splits are those of the form
AddExpense ==
  \E paidBy \in Range(members), amount \in ExpenseAmounts :
    \E splits \in FormSplits(members, amount) :
      /\ ExpenseStored(paidBy, amount, splits)
      /\ toast' = "Expense added"
      /\ UNCHANGED actor

\* settleMutation called with one of the recommended transfers of the page
SettleMutation ==
  /\ StoreWeight(expenses, settlements) + 1 <= MaxStoreWeight
  /\ \E k \in DOMAIN recommendedTransfers :
       /\ Refetched(members, expenses,
                    <<[group_id |-> GroupId,
                       payer_id |-> recommendedTransfers[k].from,
                       receiver_id |-> recommendedTransfers[k].to,
                       amount |-> Numeric2(recommendedTransfers[k].amount),
                       status |-> "settled"]>> \o settlements)
       /\ toast' = "Settlement recorded"
       /\ UNCHANGED actor

\* isCreator true for every signed-in user once the group is loaded
IsCreatorAnyUser(user) == group # <<>>

\* const isCreator = user && group && group.created_by === user.id
IsCreator(user) == group # <<>> /\ group[1].created_by = user

\* the policies a DELETE of the member row of `member` by `user` has to pass:
\* "Members can leave groups" (user_id = auth.uid()) or "Group creator can
\* delete memberships" (the group's created_by = auth.uid()), and, for the
\* row to be found by the WHERE of the request, the SELECT policy "Members
\* can see group memberships" (the user's own row, or the user is a member)
MemberDeletePolicy(user, member) ==
  /\ member = user \/ (group # <<>> /\ group[1].created_by = user)
  /\ member = user \/ user \in Range(members)

\* the member rows after a DELETE of the row at k by the user: a row that
\* does not pass the policies is not deleted, and that is no error
MemberDeleted(user, k) ==
  IF MemberDeletePolicy(user, members[k]) THEN RemoveAt(members, k) ELSE members

\* removeMemberMutation by a user for whom isCreator holds, from the button on
\* the row of another member: the member row is deleted
RemoveMemberMutation ==
  \E user \in Users, k \in DOMAIN members :
    /\ IsCreator(user)
    /\ members[k] # user
    /\ Refetched(MemberDeleted(user, k), expenses, settlements)
    /\ Toast(user, "Member removed")

NextStore ==
  HandleCreateGroup \/ JoinGroup \/ AddExpense \/ SettleMutation
    \/ RemoveMemberMutation

SpecStore == InitStore /\ [][NextStore]_vars

(* ------- create group and join by code, one request at a time --------- *)

\* the insert of a member row as it was: the constraint is not there
InsertMemberNoConstraint(rows, user) ==
  [rows |-> Append(rows, user), error |-> ""]

\* the insert of a member row under UNIQUE (group_id, user_id): a second row
\* of the user is refused with the unique violation 23505
InsertMember(rows, user) ==
  IF user \in Range(rows)
  THEN [rows |-> rows, error |-> "23505"]
  ELSE [rows |-> Append(rows, user), error |-> ""]

\* the tab ends its handler with a toast
TabDone(t, title, error) ==
  tabs' = [tabs EXCEPT ![t].pc = "idle", ![t].toast = title, ![t].error = error]

\* the rows of the group and the page, left alone by a step of a tab
storeVars == <<members, expenses, settlements, balances, recommendedTransfers, loop>>

InitJoin == Init

\* handleCreateGroup, first request: the signed-in user of the tab inserts the
\* group row; if the insert fails the handler ends in its catch
CreateGroupInsert ==
  \E t \in Tabs, user \in Users :
    /\ tabs[t].pc = "idle"
    /\ group = <<>>
    /\ \/ /\ group' = <<[id |-> GroupId, created_by |-> user,
                         invite_code |-> FirstInviteCode]>>
          /\ tabs' = [tabs EXCEPT ![t] = [user |-> user, pc |-> "memberInsert",
                                          toast |-> NoToast, error |-> ""]]
       \/ /\ tabs' = [tabs EXCEPT ![t] = [user |-> user, pc |-> "idle",
                                          toast |-> "Could not create group",
                                          error |-> "failed"]]
          /\ UNCHANGED group
    /\ UNCHANGED <<storeVars, toast, actor, besidesTabs>>

\* handleCreateGroup, second request: the creator's member row is inserted;
\* the result of the insert is not looked at, whether the row was stored, was
\* refused as a duplicate, or the request failed
CreateMemberInsert ==
  \E t \in Tabs :
    /\ tabs[t].pc = "memberInsert"
    /\ \E failed \in BOOLEAN :
         LET result == IF failed THEN [rows |-> members, error |-> "failed"]
                       ELSE InsertMember(members, tabs[t].user)
         IN /\ Memos(result.rows, expenses, settlements)
            /\ TabDone(t, "Group created", result.error)
    /\ UNCHANGED <<group, toast, actor, besidesTabs>>

\* joinGroup, first request: the signed-in user of the tab types a code and
\* the group is looked up by it; without a group for the code the mutation
\* throws "Invalid or expired code."
JoinLookup ==
  \E t \in Tabs, user \in Users, found \in BOOLEAN :
    /\ tabs[t].pc = "idle"
    /\ found => group # <<>>
    /\ tabs' = [tabs EXCEPT ![t] =
                  IF found
                  THEN [user |-> user, pc |-> "joinInsert", toast |-> NoToast,
                        error |-> ""]
                  ELSE [user |-> user, pc |-> "idle",
                        toast |-> "Could not join group", error |-> "invalid"]]
    /\ UNCHANGED <<storeVars, group, toast, actor, besidesTabs>>

\* joinGroup, second request: the user's member row is inserted; the unique
\* violation is passed over, any other error is thrown
JoinInsert ==
  \E t \in Tabs :
    /\ tabs[t].pc = "joinInsert"
    /\ \E failed \in BOOLEAN :
         LET result == IF failed THEN [rows |-> members, error |-> "failed"]
                       ELSE InsertMember(members, tabs[t].user)
         IN /\ Memos(result.rows, expenses, settlements)
            /\ TabDone(t, IF result.error \in {"", "23505"} THEN "Joined group"
                          ELSE "Could not join group", result.error)
    /\ UNCHANGED <<group, toast, actor, besidesTabs>>

NextJoin == CreateGroupInsert \/ CreateMemberInsert \/ JoinLookup \/ JoinInsert

SpecJoin == InitJoin /\ [][NextJoin]_vars

(* --------------- the home page and the groups list -------------------- *)

\* a second group the signed-in user has rows in
OtherGroupId == "g2"

HomeGroups == {GroupId, OtherGroupId}

\* the amounts of the rows the queries of the home page answer with
HomeAmounts == Amounts \cup {3 * Cent}

HomeSplitRows == [user_id : Users, share_amount : HomeAmounts]

HomeSettlementRows ==
  [group_id : HomeGroups, payer_id : Users, receiver_id : Users,
   amount : HomeAmounts, status : Statuses]

\* the data of the three queries over the same expenses and settlements
HomeQueries(user, exps, setts) ==
  [user |-> user,
   balances |-> HomeTotals(user, exps, setts),
   perGroupNet |-> PerGroupNet(user, exps, setts),
   payables |-> Payables(user, exps, setts)]

InitHome == Init

\* a user signs in and the queries run
HomeSignedIn ==
  /\ home.user = NoUser
  /\ \E user \in Users : home' = HomeQueries(user, expenses, settlements)
  /\ UNCHANGED <<expenses, settlements, besidesHome>>

\* the queries answer with one more expense, of any group, payer and splits
HomeExpenseFetched ==
  /\ home.user # NoUser
  /\ Refs(expenses, settlements) + 2 <= MaxRefs
  /\ \E g \in HomeGroups, payer \in Users,
        splits \in SeqsUpTo(HomeSplitRows, MaxRefs - 1 - Refs(expenses, settlements)) :
       LET exps == <<[group_id |-> g, paid_by |-> payer, expense_splits |-> splits]>>
                     \o expenses
       IN /\ expenses' = exps
          /\ home' = HomeQueries(home.user, exps, settlements)
  /\ UNCHANGED <<settlements, besidesHome>>

\* the queries answer with one more settlement, of any group, payer, receiver
\* and status
HomeSettlementFetched ==
  /\ home.user # NoUser
  /\ Refs(expenses, settlements) + 2 <= MaxRefs
  /\ \E s \in HomeSettlementRows :
       /\ settlements' = <<s>> \o settlements
       /\ home' = HomeQueries(home.user, expenses, <<s>> \o settlements)
  /\ UNCHANGED <<expenses, besidesHome>>

NextHome == HomeSignedIn \/ HomeExpenseFetched \/ HomeSettlementFetched

SpecHome == InitHome /\ [][NextHome]_vars

(* ------------- requests under the row-level policies ------------------ *)

ExpenseIds == {"e1"}

SplitIds == {"x1"}

SettlementIds == {"s1"}

\* the tables of the money rows
MoneyTables == {"expenses", "expense_splits", "settlements"}

\* the rows a request can name, by table
RowsOf(table) ==
  CASE table = "expenses" -> [id : ExpenseIds, group_id : HomeGroups]
    [] table = "expense_splits" ->
         [id : SplitIds, expense_id : ExpenseIds, share_amount : Amounts]
    [] table = "settlements" -> [id : SettlementIds, group_id : HomeGroups]

\* public.is_member_of_group(_group_id, _user_id): security definer, it reads
\* every row of group_members
IsMemberOfGroup(t, group_id, user) ==
  \E gm \in t.group_members : gm.group_id = group_id /\ gm.user_id = user

\* "Members can see group memberships": user_id = auth.uid() OR
\* is_member_of_group(group_id, auth.uid())
MembersSelectPolicy(t, user, row) ==
  row.user_id = user \/ IsMemberOfGroup(t, row.group_id, user)

\* the rows of group_members a subquery of the user reads
VisibleMembers(t, user) ==
  {gm \in t.group_members : MembersSelectPolicy(t, user, gm)}

\* the policy of the initial schema, WHERE gm.group_id = group_id AND ...: the
\* bare group_id is the column of gm
ExpensesPolicyUnqualified(t, user, row) ==
  \E gm \in VisibleMembers(t, user) :
    gm.group_id = gm.group_id /\ gm.user_id = user

\* "Group members can manage expenses in their groups", USING and WITH CHECK:
\* EXISTS (SELECT 1 FROM group_members gm
\*         WHERE gm.group_id = expenses.group_id AND gm.user_id = auth.uid())
ExpensesPolicy(t, user, row) ==
  \E gm \in VisibleMembers(t, user) :
    gm.group_id = row.group_id /\ gm.user_id = user

\* "Group members can manage settlements in their groups", USING and WITH CHECK
SettlementsPolicy(t, user, row) ==
  \E gm \in VisibleMembers(t, user) :
    gm.group_id = row.group_id /\ gm.user_id = user

\* "Group members can manage splits in their groups", USING and WITH CHECK:
\* EXISTS (SELECT 1 FROM expenses e JOIN group_members gm
\*         ON gm.group_id = e.group_id
\*         WHERE e.id = expense_id AND gm.user_id = auth.uid());
\* the subquery reads the expenses the user can read
SplitsPolicy(t, user, row) ==
  \E e \in {x \in t.expenses : ExpensesPolicy(t, user, x)},
     gm \in VisibleMembers(t, user) :
    gm.group_id = e.group_id /\ e.id = row.expense_id /\ gm.user_id = user

\* the policy of the table of the row
Policy(t, user, table, row) ==
  CASE table = "expenses" -> ExpensesPolicy(t, user, row)
    [] table = "expense_splits" -> SplitsPolicy(t, user, row)
    [] table = "settlements" -> SettlementsPolicy(t, user, row)

\* the primary key is free and the expense of a split exists
Insertable(t, table, row) ==
  /\ \A r \in t[table] : r.id # row.id
  /\ table = "expense_splits" => \E e \in t.expenses : e.id = row.expense_id

\* the table without the row; the splits of a deleted expense go with it
\* (ON DELETE CASCADE)
Deleted(t, table, row) ==
  IF table = "expenses"
  THEN [t EXCEPT !.expenses = @ \ {row},
                 !.expense_splits = {x \in @ : x.expense_id # row.id}]
  ELSE [t EXCEPT ![table] = @ \ {row}]

\* the request and the rows it returned or changed
Replied(user, table, op, rows) ==
  reply' = [user |-> user, table |-> table, op |-> op, rows |-> rows]

InitAccess == Init

\* a user adds a member row for themself ("Users can join groups for
\* themselves": WITH CHECK (user_id = auth.uid()))
MemberRowInserted ==
  \E user \in Users, g \in HomeGroups :
    LET row == [group_id |-> g, user_id |-> user]
    IN /\ row \notin tables.group_members
       /\ tables' = [tables EXCEPT !.group_members = @ \cup {row}]
       /\ UNCHANGED <<reply, besidesTables>>

\* a member row is deleted, by the member ("Members can leave groups") or by
\* the creator of the group ("Group creator can delete memberships")
MemberRowDeleted ==
  \E row \in tables.group_members :
    /\ tables' = [tables EXCEPT !.group_members = @ \ {row}]
    /\ UNCHANGED <<reply, besidesTables>>

\* SELECT: the rows of the table that pass USING
RowsSelected ==
  \E user \in Users, table \in MoneyTables :
    /\ Replied(user, table, "select",
               {row \in tables[table] : Policy(tables, user, table, row)})
    /\ UNCHANGED <<tables, besidesTables>>

\* INSERT: the new row is stored if it passes WITH CHECK
RowInserted ==
  \E user \in Users, table \in MoneyTables :
    \E row \in RowsOf(table) :
      /\ Insertable(tables, table, row)
      /\ IF Policy(tables, user, table, row)
         THEN /\ tables' = [tables EXCEPT ![table] = @ \cup {row}]
              /\ Replied(user, table, "insert", {row})
         ELSE /\ UNCHANGED tables
              /\ Replied(user, table, "insert", {})
      /\ UNCHANGED besidesTables

\* UPDATE of the group of an expense or settlement, or of the share of a
\* split: the row is matched if it passes USING and the new row is stored if
\* it passes WITH CHECK
RowUpdated ==
  \E user \in Users, table \in MoneyTables :
    \E old \in tables[table], new \in RowsOf(table) :
      /\ new.id = old.id
      /\ new # old
      /\ table = "expense_splits" => \E e \in tables.expenses : e.id = new.expense_id
      /\ IF Policy(tables, user, table, old) /\ Policy(tables, user, table, new)
         THEN /\ tables' = [tables EXCEPT ![table] = (@ \ {old}) \cup {new}]
              /\ Replied(user, table, "update", {new})
         ELSE /\ UNCHANGED tables
              /\ Replied(user, table, "update", {})
      /\ UNCHANGED besidesTables

\* DELETE: the row is deleted if it passes USING
RowDeleted ==
  \E user \in Users, table \in MoneyTables :
    \E old \in tables[table] :
      /\ IF Policy(tables, user, table, old)
         THEN /\ tables' = Deleted(tables, table, old)
              /\ Replied(user, table, "delete", {old})
         ELSE /\ UNCHANGED tables
              /\ Replied(user, table, "delete", {})
      /\ UNCHANGED besidesTables

NextAccess ==
  MemberRowInserted \/ MemberRowDeleted \/ RowsSelected \/ RowInserted
    \/ RowUpdated \/ RowDeleted

SpecAccess == InitAccess /\ [][NextAccess]_vars

(* ------------------- addExpense with its error path ------------------- *)

\* the percentages typed in the form fail one of the two tests: the total is
\* not above 0, or differs from 100 by more than 0.5
RejectedPercents(participants, customPercents) ==
  \/ TotalPercent(Percents(participants, customPercents)) <= 0
  \/ Abs(TotalPercent(Percents(participants, customPercents)) - 200) > 1

InitExpense == Init

\* addExpense ends in onError with nothing stored: the user reads no member
\* rows (participants is empty), the percentages are rejected, or the insert
\* of the expense fails
AddExpenseError ==
  /\ \/ Users \ Range(members) # {}
     \/ /\ members # <<>>
        /\ \E customPercents \in [Range(members) -> HalfPercents] :
             RejectedPercents(members, customPercents)
     \/ members # <<>>
  /\ toast' = "Could not add expense"
  /\ UNCHANGED <<members, expenses, settlements, balances, recommendedTransfers,
                 loop, group, actor, clientVars>>

\* addExpense ends in onError after the insert of the expense: the insert of
\* the splits, a second request, fails, and the expense row stays
AddExpenseSplitsError ==
  /\ StoreWeight(expenses, settlements) + 2 <= MaxStoreWeight
  /\ \E paidBy \in Range(members), amount \in ExpenseAmounts :
       /\ Refetched(members,
                    <<[group_id |-> GroupId, paid_by |-> paidBy,
                       amount |-> Numeric2(amount), expense_splits |-> <<>>]>>
                      \o expenses,
                    settlements)
  /\ toast' = "Could not add expense"
  /\ UNCHANGED actor

NextExpense ==
  HandleCreateGroup \/ JoinGroup \/ AddExpense \/ AddExpenseError
    \/ AddExpenseSplitsError

SpecExpense == InitExpense /\ [][NextExpense]_vars

(* ------------- the creator's mutations and the member rows ------------ *)

\* the invite codes a group gets in a run of the model
MaxInvites == 3

\* a handler ends in its error path: its toast is shown and the rows of the
\* group are as they were
Refused(user, title) ==
  /\ Toast(user, title)
  /\ UNCHANGED <<members, expenses, settlements, balances, recommendedTransfers,
                 loop, group, clientVars>>

InitManage == Init

\* inviteMutation by a user for whom isCreator holds: the row of the group gets
\* the next code; the update is filtered by created_by = user.id
InviteMutation ==
  /\ group # <<>>
  /\ group[1].invite_code < MaxInvites
  /\ \E user \in Users :
       /\ IsCreator(user)
       /\ group' = IF group[1].created_by = user
                   THEN [group EXCEPT ![1].invite_code = @ + 1]
                   ELSE group
       /\ Toast(user, "Invite created")
       /\ UNCHANGED <<members, expenses, settlements, balances,
                      recommendedTransfers, loop, clientVars>>

\* inviteMutation throws: isCreator does not hold for the user, or the update
\* fails
InviteMutationError ==
  /\ group # <<>>
  /\ \E user \in Users :
       \/ ~IsCreator(user) /\ Refused(user, "Could not generate invite")
       \/ IsCreator(user) /\ Refused(user, "Could not generate invite")

\* removeMemberMutation throws: isCreator does not hold for the user, or the
\* delete fails
RemoveMemberMutationError ==
  /\ group # <<>>
  /\ members # <<>>
  /\ \E user \in Users :
       \/ ~IsCreator(user) /\ Refused(user, "Could not remove member")
       \/ IsCreator(user) /\ Refused(user, "Could not remove member")

\* a DELETE on group_members sent by any signed-in user, past the pages of the
\* app: it deletes the row if the policies let it
MemberDeleteRequested ==
  \E user \in Users, k \in DOMAIN members :
    /\ Refetched(MemberDeleted(user, k), expenses, settlements)
    /\ Toast(user, NoToast)

NextManage ==
  HandleCreateGroup \/ JoinGroup \/ InviteMutation \/ InviteMutationError
    \/ RemoveMemberMutation \/ RemoveMemberMutationError \/ MemberDeleteRequested

SpecManage == InitManage /\ [][NextManage]_vars

(* ----------------- AuthProvider and the protected pages --------------- *)

\* the auth events delivered to the onAuthStateChange callback in a run of
\* the model
MaxAuthEvents == 2

\* the pages whose effect sends a visitor without a user to the auth page
ProtectedPages == {"Index", "GroupsList", "Profile"}

\* what an auth event or getSession carries: no session, or that of a user
Sessions == {NoUser} \cup Users

\* the context value { user, loading } of AuthProvider
ContextValue == [user |-> auth.user, loading |-> auth.loading]

\* the condition of the effect without its test of loading
ShouldRedirectWithoutLoading(seen) == seen.user = NoUser

\* if (!loading && !user), on the context value of the render of the page
ShouldRedirect(seen) == ~seen.loading /\ seen.user = NoUser

\* a step of AuthProvider or of the open page
Authed(next) == auth' = next /\ UNCHANGED besidesAuth

InitAuth == Init

\* the callback of onAuthStateChange is called with the next session, which
\* is null after a sign-out: setSession, setUser, setLoading(false)
AuthStateChange ==
  /\ auth.events < MaxAuthEvents
  /\ \E nextSession \in Sessions :
       Authed([auth EXCEPT !.user = nextSession, !.loading = FALSE,
                           !.events = @ + 1])

\* the promise of getSession is fulfilled: the then callback sets session and
\* user
GetSessionThen ==
  /\ auth.getSession = "pending"
  /\ \E session \in Sessions :
       Authed([auth EXCEPT !.user = session, !.getSession = "fulfilled"])

\* the promise of getSession is rejected: the then callback is skipped
GetSessionRejected ==
  /\ auth.getSession = "pending"
  /\ Authed([auth EXCEPT !.getSession = "rejected"])

\* the finally callback, after the promise has settled either way:
\* setLoading(false)
GetSessionFinally ==
  /\ auth.getSession # "pending"
  /\ ~auth.finally
  /\ Authed([auth EXCEPT !.loading = FALSE, !.finally = TRUE])

\* the open page renders again with the context value of the provider
PageRendered ==
  /\ auth.seen # ContextValue
  /\ Authed([auth EXCEPT !.seen = ContextValue])

\* the effect of a protected page, with the user and loading of its render:
\* navigate("/auth", { replace: true }), and the auth page renders
RedirectEffect ==
  /\ auth.page \in ProtectedPages
  /\ ShouldRedirect(auth.seen)
  /\ Authed([auth EXCEPT !.page = "Auth", !.seen = ContextValue])

\* the effect of the auth page: if (!loading && user) navigate("/")
AuthPageEffect ==
  /\ auth.page = "Auth"
  /\ ~auth.seen.loading
  /\ auth.seen.user # NoUser
  /\ Authed([auth EXCEPT !.page = "Index", !.seen = ContextValue])

\* the visitor opens another protected page, which renders
PageOpened ==
  /\ auth.page \in ProtectedPages
  /\ \E page \in ProtectedPages \ {auth.page} :
       Authed([auth EXCEPT !.page = page, !.seen = ContextValue])

NextAuth ==
  AuthStateChange \/ GetSessionThen \/ GetSessionRejected \/ GetSessionFinally
    \/ PageRendered \/ RedirectEffect \/ AuthPageEffect \/ PageOpened

\* the promise of getSession settles, and the callback of a settled promise
\* is run by the microtask queue
FairAuth ==
  /\ WF_vars(GetSessionThen \/ GetSessionRejected)
  /\ WF_vars(GetSessionFinally)

SpecAuth == InitAuth /\ [][NextAuth]_vars /\ FairAuth

(* ------------------------------ claims -------------------------------- *)

MemberSet == Range(members)

\* the expenses with split k of expense i taken out
WithoutSplit(exps, i, k) ==
  [exps EXCEPT ![i].expense_splits = RemoveAt(@, k)]

\* C1: conservation -- for every members set and every list of expenses and
\* settlements, also with payers or sharers outside the members set, the
\* values of the balance map sum to exactly zero.
C1_Conservation == SumValues(balances) = 0

\* C5: malformed references are ignored -- a split whose sharer or whose
\* expense's payer is not a member changes nothing: the balance map is the
\* one computed without that split.
C5_MalformedSplitIgnored ==
  \A i \in DOMAIN expenses :
    \A k \in DOMAIN expenses[i].expense_splits :
      (\/ expenses[i].expense_splits[k].user_id \notin MemberSet
       \/ expenses[i].paid_by \notin MemberSet)
        => Balances(members, WithoutSplit(expenses, i, k), settlements) = balances

\* C8: the key set of the balance map is exactly the members set, whatever
\* the expenses and settlements reference.
C8_KeysAreMembers == DOMAIN balances = MemberSet

\* C8 witness: expenses and settled settlements reference users outside the
\* members set, as payer and as sharer, and a member nothing references has
\* the entry 0.
C8_Witness ==
  /\ \E i \in DOMAIN expenses :
       /\ expenses[i].paid_by \notin MemberSet
       /\ \E k \in DOMAIN expenses[i].expense_splits :
            expenses[i].expense_splits[k].user_id \in MemberSet
  /\ \E j \in DOMAIN settlements :
       /\ settlements[j].status = "settled"
       /\ settlements[j].payer_id \notin MemberSet
       /\ settlements[j].receiver_id \in MemberSet
  /\ \E u \in MemberSet : balances[u] = 0
  /\ \E u \in MemberSet : balances[u] # 0

\* indices of the settlements whose status is not settled
PendingIdx(setts) == {j \in DOMAIN setts : setts[j].status # "settled"}

RECURSIVE DropIdx(_, _, _)
\* the list s from index k on, without the indices in S
DropIdx(s, S, k) ==
  IF k > Len(s) THEN <<>>
  ELSE (IF k \in S THEN <<>> ELSE <<s[k]>>) \o DropIdx(s, S, k + 1)

\* C6: pending settlements never affect balances -- the balance map of the
\* group page, the per-group net of the groups list and the totals of the
\* home page are the same with and without any of the settlements whose
\* status is not settled.
C6_PendingIgnored ==
  \A S \in (SUBSET PendingIdx(settlements)) \ {{}} :
    LET rest == DropIdx(settlements, S, 1)
    IN /\ Balances(members, expenses, rest) = balances
       /\ \A u \in Users :
            /\ PerGroupNet(u, expenses, rest) = PerGroupNet(u, expenses, settlements)
            /\ HomeTotals(u, expenses, rest) = HomeTotals(u, expenses, settlements)

\* C6 witness: a pending settlement between two different members, in a
\* group where an expense has moved the balances.
C6_Witness ==
  /\ \E j \in DOMAIN settlements :
       /\ settlements[j].status = "pending"
       /\ settlements[j].payer_id \in MemberSet
       /\ settlements[j].receiver_id \in MemberSet
       /\ settlements[j].payer_id # settlements[j].receiver_id
  /\ \E u \in MemberSet : balances[u] # 0

\* C7 as stated: a settled settlement of amount A between members raises the
\* payer's balance by A, lowers the receiver's by A and leaves the other
\* members' balances; one with a non-member payer or receiver changes nothing.
C7_SettledSettlementEffect ==
  \A j \in DOMAIN settlements :
    settlements[j].status = "settled" =>
      LET s == settlements[j]
          prior == Balances(members, expenses, RemoveAt(settlements, j))
      IN IF s.payer_id \in MemberSet /\ s.receiver_id \in MemberSet
         THEN /\ balances[s.payer_id] = prior[s.payer_id] + s.amount
              /\ balances[s.receiver_id] = prior[s.receiver_id] - s.amount
              /\ \A u \in MemberSet \ {s.payer_id, s.receiver_id} :
                   balances[u] = prior[u]
         ELSE balances = prior

\* C7 amended: a settled settlement of amount A whose payer and receiver are
\* two different members raises the payer's balance by A, lowers the
\* receiver's by A and leaves every other member's balance; one whose payer
\* and receiver are the same member, or whose payer or receiver is not a
\* member, changes no balance.
C7_SettledSettlementEffectDistinct ==
  \A j \in DOMAIN settlements :
    settlements[j].status = "settled" =>
      LET s == settlements[j]
          prior == Balances(members, expenses, RemoveAt(settlements, j))
      IN IF /\ s.payer_id \in MemberSet
            /\ s.receiver_id \in MemberSet
            /\ s.payer_id # s.receiver_id
         THEN /\ balances[s.payer_id] = prior[s.payer_id] + s.amount
              /\ balances[s.receiver_id] = prior[s.receiver_id] - s.amount
              /\ \A u \in MemberSet \ {s.payer_id, s.receiver_id} :
                   balances[u] = prior[u]
         ELSE balances = prior

\* C7 witness: a settled settlement between two different members of a group
\* with a third member, on top of balances an expense has moved.
C7_Witness ==
  /\ Cardinality(MemberSet) = 3
  /\ \E j \in DOMAIN settlements :
       /\ settlements[j].status = "settled"
       /\ settlements[j].payer_id \in MemberSet
       /\ settlements[j].receiver_id \in MemberSet
       /\ settlements[j].payer_id # settlements[j].receiver_id
       /\ \E u \in MemberSet :
            Balances(members, expenses, RemoveAt(settlements, j))[u] # 0

\* whether the expense is paid by its one and only sharer
SelfPaid(exp) ==
  /\ Len(exp.expense_splits) = 1
  /\ exp.expense_splits[1].user_id = exp.paid_by

\* C9: self-pay neutrality -- an expense whose only split belongs to the payer
\* leaves every balance as it is without the expense, whether or not the
\* payer is a member.
C9_SelfPayNeutral ==
  \A i \in DOMAIN expenses :
    SelfPaid(expenses[i]) =>
      Balances(members, RemoveAt(expenses, i), settlements) = balances

\* C9 witness: a self-paid expense of a member, in a group whose balances
\* another row has moved.
C9_Witness ==
  /\ \E i \in DOMAIN expenses :
       SelfPaid(expenses[i]) /\ expenses[i].paid_by \in MemberSet
  /\ \E u \in MemberSet : balances[u] # 0

\* whether expense e is paid by y with the single split (x, a) and settlement
\* s is a settled payment of a from x to y
Reverses(e, s) ==
  /\ Len(e.expense_splits) = 1
  /\ s.status = "settled"
  /\ s.payer_id = e.expense_splits[1].user_id
  /\ s.receiver_id = e.paid_by
  /\ s.amount = e.expense_splits[1].share_amount

\* C10: settlement reversal -- for members X and Y, an expense paid by Y with
\* the single split A for X together with a settled settlement of A from X
\* to Y leaves every member's balance where it was: taking the pair out of
\* the rows, or adding such a pair to them, gives the same balance map.
C10_SettlementReversal ==
  /\ \A i \in DOMAIN expenses, j \in DOMAIN settlements :
       (/\ Reverses(expenses[i], settlements[j])
        /\ settlements[j].payer_id \in MemberSet
        /\ settlements[j].receiver_id \in MemberSet)
         => Balances(members, RemoveAt(expenses, i), RemoveAt(settlements, j))
              = balances
  /\ \A x \in MemberSet, y \in MemberSet, a \in Amounts :
       Balances(members,
                <<[group_id |-> GroupId, paid_by |-> y,
                   expense_splits |-> <<[user_id |-> x, share_amount |-> a]>>]>>
                  \o expenses,
                <<[group_id |-> GroupId, payer_id |-> x, receiver_id |-> y,
                   amount |-> a, status |-> "settled"]>> \o settlements)
         = balances

\* C10 witness: the rows hold such an expense and its reversing settlement
\* between two different members of a group of three.
C10_Witness ==
  /\ Cardinality(MemberSet) = 3
  /\ \E i \in DOMAIN expenses, j \in DOMAIN settlements :
       /\ Reverses(expenses[i], settlements[j])
       /\ settlements[j].payer_id \in MemberSet
       /\ settlements[j].receiver_id \in MemberSet
       /\ settlements[j].payer_id # settlements[j].receiver_id

RECURSIVE ApplyTransfers(_, _)
\* the balances after every transfer is paid: what `from` owes and what `to`
\* is owed both go down by the amount
ApplyTransfers(bals, transfers) ==
  IF transfers = <<>> THEN bals
  ELSE LET t == Head(transfers)
           paid == [bals EXCEPT ![t.from] = @ + t.amount]
       IN ApplyTransfers([paid EXCEPT ![t.to] = @ - t.amount], Tail(transfers))

CreditorSet(bals) == {u \in DOMAIN bals : bals[u] > Epsilon}

DebtorSet(bals) == {u \in DOMAIN bals : bals[u] < -Epsilon}

\* C2: transfer validity -- for every balance map whose values sum to zero,
\* paying every transfer of the planner leaves every member's balance within
\* 0.01 of zero.
C2_TransferValidity ==
  SumValues(balances) = 0 =>
    \A u \in DOMAIN balances :
      Abs(ApplyTransfers(balances, recommendedTransfers)[u]) <= Epsilon

MaxOf(S) == CHOOSE m \in S : \A n \in S : m >= n

RECURSIVE MaxBlocks(_, _)
\* the largest number of blocks in a partition of S into sets of members whose
\* balances sum to zero (S itself sums to zero)
MaxBlocks(bals, S) ==
  IF S = {} THEN 0
  ELSE LET x == CHOOSE u \in S : TRUE
       IN MaxOf({1 + MaxBlocks(bals, S \ (T \cup {x})) :
                   T \in {R \in SUBSET (S \ {x}) : SumOver(bals, R \cup {x}) = 0}})

\* the least number of transfers that bring every balance of a zero-sum map
\* to zero: the transfers of a settling list connect the members into
\* zero-sum blocks, and a block of k members takes k - 1 transfers
MinTransfers(bals) ==
  LET open == {u \in DOMAIN bals : bals[u] # 0}
  IN Cardinality(open) - MaxBlocks(bals, open)

\* no two transfers of the list join the same pair of members
PairsDistinct(transfers) ==
  \A a \in DOMAIN transfers, b \in DOMAIN transfers :
    (a # b) => ~(/\ transfers[a].from = transfers[b].from
                 /\ transfers[a].to = transfers[b].to)

\* C3 as stated: minimality -- for every zero-sum balance map no list with
\* fewer transfers than the planner's settles the balances.
C3_Minimal ==
  SumValues(balances) = 0 =>
    Len(recommendedTransfers) <= MinTransfers(balances)

\* C3 amended: for every zero-sum balance map with at most four creditors and
\* debtors together no list with fewer transfers than the planner's settles
\* the balances; with five or more a shorter list can exist (the planner is
\* greedy), and in every case no two of its transfers join the same pair of
\* members.
C3_MinimalUpToFour ==
  SumValues(balances) = 0 =>
    /\ PairsDistinct(recommendedTransfers)
    /\ Cardinality(CreditorSet(balances) \cup DebtorSet(balances)) <= 4
         => Len(recommendedTransfers) <= MinTransfers(balances)

\* C3 witness: a zero-sum map with two creditors and two debtors for which the
\* planner returns three transfers, and three are needed.
C3_Witness ==
  /\ SumValues(balances) = 0
  /\ Cardinality(CreditorSet(balances)) = 2
  /\ Cardinality(DebtorSet(balances)) = 2
  /\ Len(recommendedTransfers) = 3
  /\ MinTransfers(balances) = 3

\* C4 as stated: for every balance map the planner returns at most
\* (creditors) + (debtors) - 1 transfers.
C4_CountBound ==
  Len(recommendedTransfers)
    <= Cardinality(CreditorSet(balances)) + Cardinality(DebtorSet(balances)) - 1

\* C4 amended: for every balance map with at least one creditor or debtor the
\* planner returns at most (creditors) + (debtors) - 1 transfers, and for a
\* map with no creditor and no debtor it returns none.
C4_CountBoundNonEmpty ==
  LET n == Cardinality(CreditorSet(balances)) + Cardinality(DebtorSet(balances))
  IN IF n = 0 THEN Len(recommendedTransfers) = 0
     ELSE Len(recommendedTransfers) <= n - 1

\* C4 witness: a map with at least two creditors and two debtors for which the
\* planner returns exactly (creditors) + (debtors) - 1 transfers.
C4_Witness ==
  /\ Cardinality(CreditorSet(balances)) >= 2
  /\ Cardinality(DebtorSet(balances)) >= 2
  /\ Len(recommendedTransfers)
       = Cardinality(CreditorSet(balances)) + Cardinality(DebtorSet(balances)) - 1

(* ----------------------- claims C11 to C20 ---------------------------- *)

\* the user ids on a list of the planner
UserIds(list) == {list[k].userId : k \in DOMAIN list}

\* the users named by a transfer of the list
Participants(transfers) ==
  {transfers[k].from : k \in DOMAIN transfers}
    \cup {transfers[k].to : k \in DOMAIN transfers}

\* C11: a member is on the creditors list of the planner exactly when the
\* balance is above one cent (0.01) and on the debtors list exactly when it is
\* below minus one cent; a member whose balance is within one cent of zero
\* (0.009, or exactly 0.01) is named by no transfer.
C11_EpsilonPartition ==
  LET entries == Entries(members, balances)
  IN \A u \in DOMAIN balances :
       /\ u \in UserIds(Creditors(entries)) <=> balances[u] > Cent
       /\ u \in UserIds(Debtors(entries)) <=> balances[u] < -Cent
       /\ Abs(balances[u]) <= Cent => u \notin Participants(recommendedTransfers)

\* balances of -0.011, 0.011, exactly 0.01 (either sign) and 0.009 (either
\* sign) side by side: the planner pairs the first two and leaves the others
C11_Witness ==
  \E a, b, c, d \in DOMAIN balances :
    /\ balances[a] = -(Cent + 1)
    /\ balances[b] = Cent + 1
    /\ Abs(balances[c]) = Cent
    /\ Abs(balances[d]) = Cent - 1
    /\ recommendedTransfers = <<[from |-> a, to |-> b, amount |-> Cent + 1]>>

\* C12: every transfer the planner returns has an amount above zero.
C12_PositiveAmounts ==
  \A k \in DOMAIN recommendedTransfers : recommendedTransfers[k].amount > 0

\* a debtor pays a first creditor and then, with the 0.01 that is left of the
\* debt, a second one
C12_Witness ==
  \E k \in DOMAIN recommendedTransfers :
    /\ k > 1
    /\ recommendedTransfers[k].from = recommendedTransfers[k - 1].from
    /\ recommendedTransfers[k].to # recommendedTransfers[k - 1].to
    /\ recommendedTransfers[k].amount = Epsilon

\* the place of a member in the iteration order of the balance map
Place(u) == CHOOSE k \in DOMAIN members : members[k] = u

\* member u comes before member v on a list sorted by v's and u's values a
\* and b, descending and stable
Before(u, a, v, b) == a > b \/ (a = b /\ Place(u) <= Place(v))

\* C13: along the planner's list the payers come in the order of what they
\* owed at the start, largest first, and the receivers in the order of what
\* they were owed, largest first; members with equal amounts come in the
\* iteration order of the balance map.
C13_Ordering ==
  \A k, l \in DOMAIN recommendedTransfers :
    k < l =>
      LET a == recommendedTransfers[k]
          b == recommendedTransfers[l]
      IN /\ Before(a.from, -balances[a.from], b.from, -balances[b.from])
         /\ Before(a.to, balances[a.to], b.to, balances[b.to])

\* two payers who owe the same and two receivers who are owed the same
C13_Witness ==
  \E k, l \in DOMAIN recommendedTransfers :
    LET a == recommendedTransfers[k]
        b == recommendedTransfers[l]
    IN /\ k < l
       /\ a.from # b.from /\ balances[a.from] = balances[b.from]
       /\ a.to # b.to /\ balances[a.to] = balances[b.to]

\* C14: for every balance map, those whose values do not sum to zero included,
\* every iteration of the planner's loop moves at least one of its two
\* pointers forward and none back, a started run of the loop comes to its
\* return, and what it returns is the list of transfers it has pushed.
C14_Termination ==
  /\ [][loop.pc = "loop" /\ loop'.pc = "loop" =>
          /\ loop'.i >= loop.i
          /\ loop'.j >= loop.j
          /\ loop'.i + loop'.j > loop.i + loop.j]_vars
  /\ [](loop.pc = "loop" => <>(loop.pc = "done"))
  /\ [](loop.pc = "done" =>
          recommendedTransfers = RecommendedTransfers(members, balances))

\* the loop has returned after three iterations on a map whose values do not
\* sum to zero, with debtors left over
C14_Witness ==
  /\ loop.pc = "done"
  /\ SumValues(balances) # 0
  /\ Len(loop.transfers) >= 3
  /\ loop.i <= Len(loop.debtors)

\* C15: with no members the balance map and the list of transfers are empty
\* whatever expenses and settlements there are; with members but neither
\* expenses nor settlements every balance is 0 and the list of transfers is
\* empty.
C15_DegenerateInput ==
  /\ members = <<>> =>
       /\ DOMAIN balances = {}
       /\ recommendedTransfers = <<>>
  /\ (expenses = <<>> /\ settlements = <<>>) =>
       /\ \A u \in MemberSet : balances[u] = 0
       /\ recommendedTransfers = <<>>

\* no members, but an expense with a split and a settled settlement
C15_Witness ==
  /\ members = <<>>
  /\ \E i \in DOMAIN expenses : expenses[i].expense_splits # <<>>
  /\ \E j \in DOMAIN settlements : settlements[j].status = "settled"

Hundred == 10000 * Cent

ThreeHundred == 30000 * Cent

\* the expense of the scenario: 300 paid by a, split 100 each among a, b, c
ScenarioExpense(a, b, c) ==
  [group_id |-> GroupId, paid_by |-> a, amount |-> ThreeHundred,
   expense_splits |-> <<[user_id |-> a, share_amount |-> Hundred],
                        [user_id |-> b, share_amount |-> Hundred],
                        [user_id |-> c, share_amount |-> Hundred]>>]

\* the settlement of the scenario: 100 from b to a, settled
ScenarioSettlement(a, b) ==
  [group_id |-> GroupId, payer_id |-> b, receiver_id |-> a,
   amount |-> Hundred, status |-> "settled"]

\* C17: with members A, B, C in that order and one expense of 300 paid by A
\* and split 100 each among A, B, C the balances are A = +200, B = -100,
\* C = -100 and the planner returns exactly B to A 100, C to A 100; with a
\* settled settlement of 100 from B to A on top the balances are A = +100,
\* B = 0, C = -100 and the planner returns exactly C to A 100.
C17_Scenario ==
  \A a, b, c \in Users :
    (a # b /\ a # c /\ b # c /\ members = <<a, b, c>>
       /\ expenses = <<ScenarioExpense(a, b, c)>>) =>
      /\ settlements = <<>> =>
           /\ balances = (a :> 2 * Hundred) @@ (b :> -Hundred) @@ (c :> -Hundred)
           /\ recommendedTransfers =
                <<[from |-> b, to |-> a, amount |-> Hundred],
                  [from |-> c, to |-> a, amount |-> Hundred]>>
      /\ settlements = <<ScenarioSettlement(a, b)>> =>
           /\ balances = (a :> Hundred) @@ (b :> 0) @@ (c :> -Hundred)
           /\ recommendedTransfers =
                <<[from |-> c, to |-> a, amount |-> Hundred]>>

\* the scenario after the settlement, with users 1, 2, 3 as A, B, C
C17_Witness ==
  /\ members = <<1, 2, 3>>
  /\ expenses = <<ScenarioExpense(1, 2, 3)>>
  /\ settlements = <<ScenarioSettlement(1, 2)>>
  /\ recommendedTransfers = <<[from |-> 3, to |-> 1, amount |-> Hundred]>>

\* C18: in every state of the store the app's operations on a group lead to
\* (create group, join, add expense paid by a member with the equal or the
\* custom split, record a settled settlement between members, the creator
\* removes a member) the balances of the group page sum to zero.
C18_StoreConservation ==
  group # <<>> => SumOver(balances, MemberSet) = 0

\* the rows settleMutation stores when it is called with each transfer of the
\* list in turn
SettledRows(transfers) ==
  [k \in DOMAIN transfers |->
     [group_id |-> GroupId, payer_id |-> transfers[k].from,
      receiver_id |-> transfers[k].to, amount |-> Numeric2(transfers[k].amount),
      status |-> "settled"]]

\* the balances once every transfer of the planner's list is recorded
AfterOneRound ==
  ApplySettlements(balances, SettledRows(recommendedTransfers))

RECURSIVE SumShares(_)
\* the sum of the shares of a list of splits
SumShares(splits) ==
  IF splits = <<>> THEN 0
  ELSE Head(splits).share_amount + SumShares(Tail(splits))

\* C20: for every expense addExpense has stored, the stored shares sum to the
\* amount of the expense within 0.01.
C20_SharesSumToAmount ==
  \A i \in DOMAIN expenses :
    Abs(SumShares(expenses[i].expense_splits) - expenses[i].amount) <= Cent

(* ----------------------- claims C21 to C30 ---------------------------- *)

RECURSIVE PaidBefore(_, _, _)
\* what member u has paid by the first k - 1 transfers of the list
PaidBefore(transfers, k, u) ==
  IF k <= 1 THEN 0
  ELSE (IF transfers[k - 1].from = u THEN transfers[k - 1].amount ELSE 0)
         + PaidBefore(transfers, k - 1, u)

RECURSIVE ReceivedBefore(_, _, _)
\* what member u has received by the first k - 1 transfers of the list
ReceivedBefore(transfers, k, u) ==
  IF k <= 1 THEN 0
  ELSE (IF transfers[k - 1].to = u THEN transfers[k - 1].amount ELSE 0)
         + ReceivedBefore(transfers, k - 1, u)

\* C21: the transfers leaving a debtor never add up to more than the debtor
\* owed and those entering a creditor never to more than the creditor was
\* owed; every payer is a debtor and every receiver a creditor, so nobody pays
\* themself; and the amount of every transfer is the smaller of what is left
\* of the payer's debt and what is left of the receiver's credit at that step.
C21_NoOverPayment ==
  LET n == Len(recommendedTransfers) IN
  /\ \A u \in DOMAIN balances :
       /\ PaidBefore(recommendedTransfers, n + 1, u) > 0 =>
            PaidBefore(recommendedTransfers, n + 1, u) <= -balances[u]
       /\ ReceivedBefore(recommendedTransfers, n + 1, u) > 0 =>
            ReceivedBefore(recommendedTransfers, n + 1, u) <= balances[u]
  /\ \A k \in 1..n :
       LET t == recommendedTransfers[k] IN
       /\ t.from \in DebtorSet(balances)
       /\ t.to \in CreditorSet(balances)
       /\ t.from # t.to
       /\ LET owed == -balances[t.from] - PaidBefore(recommendedTransfers, k, t.from)
              due == balances[t.to] - ReceivedBefore(recommendedTransfers, k, t.to)
          IN /\ t.amount <= owed
             /\ t.amount <= due
             /\ t.amount = owed \/ t.amount = due

\* a debtor pays two creditors to the full of the debt, the second creditor
\* receives from two debtors, and the last debtor keeps a part of the debt
C21_Witness ==
  /\ Len(recommendedTransfers) >= 3
  /\ recommendedTransfers[1].from = recommendedTransfers[2].from
  /\ recommendedTransfers[2].to = recommendedTransfers[3].to
  /\ recommendedTransfers[1].amount + recommendedTransfers[2].amount
       = -balances[recommendedTransfers[1].from]
  /\ PaidBefore(recommendedTransfers, 4, recommendedTransfers[3].from)
       < -balances[recommendedTransfers[3].from]


\* C22: under any interleaving of the requests of create group and join by
\* code in the tabs, the member rows of the group hold every user at most
\* once, and a join whose insert was refused as a duplicate (the user was a
\* member already) has ended with the toast "Joined group"
C22_MembershipIsSet ==
  /\ \A i, j \in DOMAIN members : members[i] = members[j] => i = j
  /\ \A t \in Tabs :
       (tabs[t].error = "23505" /\ tabs[t].pc = "idle")
         => tabs[t].toast \in {"Joined group", "Group created"}

\* a user has joined twice, in two tabs: one insert stored the row, the other
\* was refused as a duplicate and reported as success; the group holds one row
\* of the user
C22_Witness ==
  \E t1, t2 \in Tabs :
    /\ t1 # t2
    /\ tabs[t1].user = tabs[t2].user
    /\ tabs[t1].toast = "Joined group" /\ tabs[t1].error = ""
    /\ tabs[t2].toast = "Joined group" /\ tabs[t2].error = "23505"
    /\ tabs[t1].pc = "idle" /\ tabs[t2].pc = "idle"
    /\ Cardinality({i \in DOMAIN members : members[i] = tabs[t1].user}) = 1


\* the per-group net the groups list shows for the group: the entry of the
\* perGroupNet map, 0 when the map has no entry for the group
ListedNet(user) ==
  LET map == PerGroupNet(user, expenses, settlements)
  IN IF GroupId \in DOMAIN map THEN map[GroupId] ELSE 0

\* C23: in every state of the store, for every user who is a member of the
\* group, the balance of the user on the group page equals the per-group net
\* the groups list computes for the user and the group
C23_CrossViewAgreement ==
  \A user \in MemberSet : balances[user] = ListedNet(user)


RECURSIVE SumEntries(_)
\* the sum of the values of the entries of perPerson
SumEntries(list) ==
  IF list = <<>> THEN 0 ELSE Head(list).value + SumEntries(Tail(list))

\* C24: over the same expenses and settlements, the net of the home page
\* (totalOwedToYou - totalOwed) equals the sum over the groups of the per-group
\* nets of the groups list, and equals the sum over the counterparties of the
\* per-person amounts of the payables query
C24_GlobalAgreement ==
  home.user # NoUser =>
    LET net == home.balances.totalOwedToYou - home.balances.totalOwed
    IN /\ net = SumValues(home.perGroupNet)
       /\ net = SumEntries(PerPerson(home.user, expenses, settlements))

\* the signed-in user has a net in two groups and with two counterparties, one
\* of them from a settled settlement, and the nets do not cancel
C24_Witness ==
  /\ home.user # NoUser
  /\ DOMAIN home.perGroupNet = HomeGroups
  /\ \A g \in HomeGroups : home.perGroupNet[g] # 0
  /\ Len(PerPerson(home.user, expenses, settlements)) = 2
  /\ \E j \in DOMAIN settlements :
       /\ settlements[j].status = "settled"
       /\ home.user \in {settlements[j].payer_id, settlements[j].receiver_id}
       /\ settlements[j].payer_id # settlements[j].receiver_id
  /\ home.balances.totalOwedToYou - home.balances.totalOwed # 0

\* the ids of the people the list names
PayableIds == {home.payables[k].counterpartyId : k \in DOMAIN home.payables}

\* C25: the list of the people to pay never holds the signed-in user, holds
\* exactly the counterparties whose per-person net is below -0.01, each once
\* and with the positive amount that is owed, and is ordered by non-increasing
\* amount, whatever the expenses and settlements are
C25_PeopleToPay ==
  home.user # NoUser =>
    LET perPerson == PerPerson(home.user, expenses, settlements)
        list == home.payables
    IN /\ home.user \notin PayableIds
       /\ PayableIds = {perPerson[k].id : k \in {i \in DOMAIN perPerson :
                                                  perPerson[i].value < -PayableThreshold}}
       /\ Cardinality(PayableIds) = Len(list)
       /\ \A k \in DOMAIN list :
            /\ list[k].amount > 0
            /\ \E i \in DOMAIN perPerson :
                 /\ perPerson[i].id = list[k].counterpartyId
                 /\ perPerson[i].value = -list[k].amount
            /\ k < Len(list) => list[k].amount >= list[k + 1].amount

\* the signed-in user has a settled settlement with themself as payer and
\* receiver, which gives the per-person record an entry for the user, and owes
\* one person more than 0.01, who is the one name on the list
C25_Witness ==
  /\ home.user # NoUser
  /\ \E j \in DOMAIN settlements :
       /\ settlements[j].status = "settled"
       /\ settlements[j].payer_id = home.user
       /\ settlements[j].receiver_id = home.user
  /\ Len(home.payables) = 1
  /\ \E i \in DOMAIN PerPerson(home.user, expenses, settlements) :
       PerPerson(home.user, expenses, settlements)[i].id = home.user


\* the rows of the three tables that belong to group g: its expenses, the
\* splits of its expenses, its settlements
GroupRows(t, g) ==
  [expenses |-> {e \in t.expenses : e.group_id = g},
   expense_splits |-> {x \in t.expense_splits :
                         \E e \in t.expenses : e.id = x.expense_id /\ e.group_id = g},
   settlements |-> {s \in t.settlements : s.group_id = g}]

\* C26: under the row-level policies, a request of a user who is not a member
\* of a group neither returns a row of the expenses, expense splits or
\* settlements of that group nor inserts, updates or deletes one, whatever
\* the member rows are at the time of the request
C26_AccessByMembership ==
  [][\A g \in HomeGroups :
       (\/ GroupRows(tables', g) # GroupRows(tables, g)
        \/ /\ reply' # reply
           /\ reply'.op = "select"
           /\ reply'.rows \cap GroupRows(tables, g)[reply'.table] # {})
         => [group_id |-> g, user_id |-> reply'.user] \in tables.group_members]_vars

\* a user who is a member of one group only has asked for the expenses while
\* the other group has an expense with a split and a settlement, and has got
\* none of them
C26_Witness ==
  \E g \in HomeGroups, other \in HomeGroups :
    /\ other # g
    /\ reply.op = "select"
    /\ reply.table = "expenses"
    /\ [group_id |-> g, user_id |-> reply.user] \notin tables.group_members
    /\ [group_id |-> other, user_id |-> reply.user] \in tables.group_members
    /\ GroupRows(tables, g).expenses # {}
    /\ GroupRows(tables, g).expense_splits # {}
    /\ GroupRows(tables, g).settlements # {}
    /\ reply.rows \cap GroupRows(tables, g).expenses = {}


\* C27: whenever addExpense ends on its error path, with the toast "Could not
\* add expense", the store holds the expense rows and split rows it held
\* before the call
C27_AddExpenseAllOrNothing ==
  [][toast' = "Could not add expense" => expenses' = expenses]_vars


\* C28: whenever handleCreateGroup has reported "Group created" in a tab, the
\* user of the tab, who created the group, has a member row in the group and
\* with it an entry in the balances of the group
C28_CreatorIsMember ==
  \A t \in Tabs :
    tabs[t].toast = "Group created" =>
      /\ tabs[t].user \in Range(members)
      /\ tabs[t].user \in DOMAIN balances


\* the toasts of inviteMutation and removeMemberMutation
ManageToasts ==
  {"Invite created", "Could not generate invite", "Member removed",
   "Could not remove member"}

\* the users who have a member row before the step and none after it
RowsDeleted == Range(members) \ Range(members')

\* the user in created_by of the row of the group, before the step
GroupCreator == IF group = <<>> THEN NoUser ELSE group[1].created_by

\* a step in which the two mutations and the deletes of member rows keep to
\* the creator
CreatorOnlyStep ==
  /\ (toast' \in ManageToasts /\ actor' # GroupCreator)
       => /\ toast' \in {"Could not generate invite", "Could not remove member"}
          /\ group' = group
          /\ members' = members
  /\ (group # <<>> /\ group' # group) => actor' = GroupCreator
  /\ \A member \in RowsDeleted : actor' = member \/ actor' = GroupCreator

\* C29: a call of inviteMutation or removeMemberMutation by a user who is not
\* the creator of the group ends in the error toast and leaves the invite code
\* and the member rows as they were, so that the two mutations change the
\* store only for the creator; and whatever the request, a member row is
\* deleted only by the member of the row or by the creator of the group
C29_CreatorOnly == [][CreatorOnlyStep]_vars

\* a member who is not the creator has called removeMemberMutation and got the
\* error, in a group of three members whose invite code the creator has
\* changed
C29_Witness ==
  /\ group # <<>>
  /\ toast = "Could not remove member"
  /\ actor \in Range(members)
  /\ actor # GroupCreator
  /\ Len(members) = 3
  /\ group[1].invite_code > FirstInviteCode


\* a step that does not set loading back to true and that leaves a protected
\* page for the auth page only when loading is false
LoadingStep ==
  /\ ~auth.loading => ~auth'.loading
  /\ (auth.page \in ProtectedPages /\ auth'.page = "Auth") => ~auth.loading

\* C30: loading of AuthProvider is true at first; in every order of the auth
\* events and the settling of getSession, fulfilled or rejected, it becomes
\* false at some time and is never true after that; and no protected page
\* navigates to the auth page while loading is true
C30_LoadingLifecycle ==
  /\ auth.loading
  /\ [][LoadingStep]_vars
  /\ <>(~auth.loading)

\* getSession was rejected and no auth event came: the finally callback has
\* set loading to false, and the protected page, rendered with loading false
\* and no user, has navigated to the auth page
C30_Witness ==
  /\ auth.getSession = "rejected"
  /\ auth.finally
  /\ auth.events = 0
  /\ ~auth.loading
  /\ auth.page = "Auth"

=============================================================================
